---- MODULE Spec2Model ----
(***************************************************************************)
(* Real-time transcription session of the App component                    *)
(* (src/unnamed/part_004): microphone capture, transcription socket,       *)
(* three-tier transcript reconciliation in ws.onmessage, stopListening,    *)
(* closeWebSocket timers, the analysis handoff                             *)
(* (processRealtimeComplete, src/unnamed/part_002) and the inline audio    *)
(* worklet (AudioProcessor.process) with workletNode.port.onmessage.       *)
(*                                                                         *)
(* Every startListening call creates one "session" record holding the     *)
(* objects that call creates (stream, MediaRecorder, WebSocket,            *)
(* AudioContext, worklet node, duration interval).  The React refs hold    *)
(* the index of the session whose object they point at, 0 for null.        *)
(* Texts are sequences of characters so that trim() and the space join     *)
(* are computed, not assumed.                                              *)
(***************************************************************************)
EXTENDS Integers, Sequences, FiniteSets, TLC

\* ------------------------------------------------------------------ bounds
MaxSessions == 1      \* startListening calls explored by Spec
RaceSessions == 2     \* startListening calls explored by RaceSpec
MaxFinals == 2        \* large_result messages explored
MaxChunks == 2        \* MediaRecorder chunks kept in recordedAudioChunksRef
MaxTextLen == 3       \* length cap of the cumulative medium transcript
MaxStat == 2          \* fast and mid messages counted by stats between resets
MaxParseErrors == 1   \* unparsable messages explored per socket
bufferSize == 2       \* samples per frame (this.bufferSize, 1600 in the source)
MaxQuantum == 3       \* longest render quantum handed to process()
MaxSamples == 5       \* input samples explored per processor
MaxLog == 2           \* messages published to the reconcilers
MaxSeq == 2           \* newest sequence_number the polled backend reaches
MaxPolls == 3         \* getRealtimeUpdates requests explored
MaxStreams == 2
MaxStopCalls == 2       \* sockets handed to stopStreaming

\* ------------------------------------------------------------------- texts
SP == " "

\* texts a backend message may carry in the lifecycle specification
LifeTexts == { <<"a">> }

\* texts a backend message may carry in the tier-reconciliation specification
TierTexts == { <<>>, <<"a">>, <<SP>>, <<SP, "b">>, <<"a", SP>> }

RECURSIVE TrimStart(_)
TrimStart(s) ==
  IF s = <<>> THEN s
  ELSE IF Head(s) = SP THEN TrimStart(Tail(s)) ELSE s

RECURSIVE TrimEnd(_)
TrimEnd(s) ==
  IF s = <<>> THEN s
  ELSE IF s[Len(s)] = SP THEN TrimEnd(SubSeq(s, 1, Len(s) - 1)) ELSE s

\* String.prototype.trim
Trim(s) == TrimEnd(TrimStart(s))

\* `${cumulativeMediumRef.current} ${newDelta}` when the ref is truthy
JoinDelta(cum, delta) ==
  IF cum # <<>> THEN cum \o <<SP>> \o delta ELSE delta

\* what renderRealtimePage shows: largeText if truthy, else medium then
\* deepgram separated by one space
Displayed(large, medium, fast) ==
  IF large # <<>> THEN large
  ELSE IF medium # <<>> /\ fast # <<>> THEN medium \o <<SP>> \o fast
  ELSE medium \o fast

\* ------------------------------------------------------------------- state
VARIABLES
  currentView,            \* "dashboard" | "realtime"
  meetingState,           \* MeetingState
  error,                  \* error string set (TRUE) or null (FALSE)
  realtimeError,          \* "" | the message kind shown on the realtime page
  deepgramText,
  mediumTranscript,
  largeText,
  isListening,
  isProcessingLarge,
  wsRef,
  audioContextRef,
  workletNodeRef,
  streamRef,
  durationIntervalRef,
  mediaRecorderRef,
  cumulativeMediumRef,
  recordedAudioChunksRef,
  sessions,               \* objects created by each startListening call
  fallbackTimers,         \* the 20 s timers of stopListening, in creation order
  closeTimers,            \* pending 500 ms closeWebSocket timers
  stopAwaiting,           \* stopListening calls suspended in await close()
  calls,                  \* processRealtimeComplete calls
  stats,                  \* {tiny, medium, large} message counters
  mounted,                \* App component still mounted
  isSpeaking,             \* speech indicator of the realtime page
  replicas,               \* reconcilers fed the messages the host publishes
  polling,                \* a pollRealtimeUpdates call and its backend
  streaming               \* the sockets handed to stopStreaming

vars == << currentView, meetingState, error, realtimeError, deepgramText,
           mediumTranscript, largeText, isListening, isProcessingLarge,
           wsRef, audioContextRef, workletNodeRef, streamRef,
           durationIntervalRef, mediaRecorderRef, cumulativeMediumRef,
           recordedAudioChunksRef, sessions, fallbackTimers, closeTimers,
           stopAwaiting, calls, stats, mounted, isSpeaking, replicas,
           polling, streaming >>

reactVars == << currentView, meetingState, error, realtimeError >>
textVars == << deepgramText, mediumTranscript, largeText, cumulativeMediumRef,
               stats >>
flagVars == << isListening, isProcessingLarge >>
refVars == << wsRef, audioContextRef, workletNodeRef, streamRef,
              durationIntervalRef, mediaRecorderRef >>
timerVars == << fallbackTimers, closeTimers, stopAwaiting >>
apiVars == << replicas, polling, streaming >>
appVars == << reactVars, textVars, flagVars, refVars, timerVars, sessions,
              recordedAudioChunksRef, calls, mounted, isSpeaking >>

Sess == 1..Len(sessions)

\* the transcript state of a reconciler that has seen no message
EmptyTranscript ==
  [ deepgramText |-> <<>>, mediumTranscript |-> <<>>, largeText |-> <<>>,
    cumulativeMediumRef |-> <<>> ]

\* the reconcilers fed the published messages: one from the start, one that
\* joins later; log is every message published, joinedAt the length of the
\* log when the late one joined (-1 before)
NoReplicas ==
  [ log |-> <<>>, peer |-> EmptyTranscript, late |-> EmptyTranscript,
    joinedAt |-> -1 ]

\* the transcript state the reconciliation works on
Transcript ==
  [ deepgramText |-> deepgramText, mediumTranscript |-> mediumTranscript,
    largeText |-> largeText, cumulativeMediumRef |-> cumulativeMediumRef ]

\* Reconcile as it would be if a replica did not trim the delta
Reconcile_NoTrim(t, msg) ==
  CASE msg.type = "deepgram_transcript" ->
         [t EXCEPT !.deepgramText = msg.text]
    [] msg.type = "medium_delta" ->
         IF msg.text # <<>>
         THEN [t EXCEPT
                 !.cumulativeMediumRef =
                   JoinDelta(t.cumulativeMediumRef, msg.text),
                 !.mediumTranscript =
                   JoinDelta(t.cumulativeMediumRef, msg.text)]
         ELSE t
    [] msg.type = "large_result" ->
         [t EXCEPT !.largeText = msg.text, !.mediumTranscript = <<>>,
                   !.deepgramText = <<>>, !.cumulativeMediumRef = <<>>]
    [] OTHER -> t

\* the transcript state after ws.onmessage has applied msg to t
Reconcile(t, msg) ==
  CASE msg.type = "deepgram_transcript" ->
         [t EXCEPT !.deepgramText = msg.text]
    [] msg.type = "medium_delta" ->
         IF Trim(msg.text) # <<>>
         THEN [t EXCEPT
                 !.cumulativeMediumRef =
                   JoinDelta(t.cumulativeMediumRef, Trim(msg.text)),
                 !.mediumTranscript =
                   JoinDelta(t.cumulativeMediumRef, Trim(msg.text))]
         ELSE t
    [] msg.type = "large_result" ->
         [t EXCEPT !.largeText = msg.text, !.mediumTranscript = <<>>,
                   !.deepgramText = <<>>, !.cumulativeMediumRef = <<>>]
    [] OTHER -> t

\* pollRealtimeUpdates has returned: its first poll() has issued a request.
\* lastSequence and isPolling are the closure's variables, timers the pending
\* setTimeout(poll), inflight the getRealtimeUpdates requests not yet settled
\* and after the after_sequence of the last one; head is the newest
\* sequence_number the backend holds, honest whether every response so far
\* held only updates after the after_sequence asked for; requests and
\* delivered count the getRealtimeUpdates calls and, per sequence_number,
\* the times onUpdate was handed it
NewPolling ==
  [ lastSequence |-> -1, isPolling |-> TRUE, timers |-> 0, inflight |-> 1,
    after |-> -1, head |-> -1, honest |-> TRUE, requests |-> 1,
    delivered |-> [u \in 0..MaxSeq |-> 0] ]

\* a socket created by connectStreamingTranscription
NewStream ==
  [ ws |-> "CONNECTING", stopCalls |-> 0, stopSent |-> 0, timers |-> 0,
    closeCalls |-> 0 ]

\* the objects of a startListening call that has just been entered
NewSession(listening, processing) ==
  [ pc |-> "getUserMedia",     \* getUserMedia | started | failed
    capListening |-> listening,       \* isListening seen by the closures
    capProcessing |-> processing,     \* isProcessingLarge seen by the closures
    stream |-> "none",         \* none | live | stopped
    trackStops |-> 0,
    rec |-> "none",            \* none | recording | inactive
    recFlush |-> FALSE,        \* the dataavailable that follows stop() is due
    ws |-> "none",             \* none | CONNECTING | OPEN | CLOSING | CLOSED
    closeFired |-> FALSE,      \* the close event has been dispatched
    closeCalls |-> 0,          \* ws.close() calls made by the client
    fallback |-> 0,            \* ws.__fallbackTimeout, 0 when unset
    stopSent |-> 0,            \* {type:"stop"} messages sent
    finals |-> 0,              \* large_result messages received
    pcOpen |-> "none",         \* none | addModule | done
    ctx |-> "none",            \* none | running | closed
    ctxCloses |-> 0,
    worklet |-> "none",        \* none | connected | disconnected
    wkDisconnects |-> 0,
    interval |-> "none",       \* none | live | cleared
    buffer |-> <<>>,           \* this.buffer[0 .. bufferIndex-1] of the processor
    isActive |-> TRUE,         \* this.isActive of the processor
    alive |-> TRUE,            \* process() has not yet returned false
    rendering |-> FALSE,       \* the context's render thread is running
    port |-> <<>>,             \* frames posted by the processor, not yet handled
    fed |-> <<>>,              \* every input sample process() has consumed
    emitted |-> <<>>,          \* every frame process() has posted
    sent |-> <<>>,             \* binary messages sent on the socket
    parseErrors |-> 0 ]        \* messages dropped by the catch of ws.onmessage

Init ==
  /\ currentView = "dashboard"
  /\ meetingState = "IDLE"
  /\ error = FALSE
  /\ realtimeError = ""
  /\ deepgramText = <<>>
  /\ mediumTranscript = <<>>
  /\ largeText = <<>>
  /\ isListening = FALSE
  /\ isProcessingLarge = FALSE
  /\ wsRef = 0
  /\ audioContextRef = 0
  /\ workletNodeRef = 0
  /\ streamRef = 0
  /\ durationIntervalRef = 0
  /\ mediaRecorderRef = 0
  /\ cumulativeMediumRef = <<>>
  /\ recordedAudioChunksRef = <<>>
  /\ sessions = <<>>
  /\ fallbackTimers = <<>>
  /\ closeTimers = 0
  /\ stopAwaiting = 0
  /\ calls = <<>>
  /\ stats = [tiny |-> 0, medium |-> 0, large |-> 0]
  /\ mounted = TRUE
  /\ isSpeaking = FALSE
  /\ replicas = NoReplicas
  /\ polling = NewPolling
  /\ streaming = [i \in 1..MaxStreams |-> NewStream]

\* ------------------------------------------------------- object helpers
Upd(S, k, f, v) == IF k = 0 THEN S ELSE [S EXCEPT ![k][f] = v]

Bump(S, k, f) == IF k = 0 THEN S ELSE [S EXCEPT ![k][f] = @ + 1]

\* mediaRecorderRef.current.stop() unless it is inactive
RecorderStop(S, k) ==
  IF k # 0 /\ S[k].rec = "recording"
  THEN [S EXCEPT ![k].rec = "inactive", ![k].recFlush = TRUE]
  ELSE S

\* SendStop as it would be if the stop message were not sent
SendStop_Skipped(S, k) == S

\* wsRef.current.send({type:"stop"}) when the socket is OPEN
SendStop(S, k) ==
  IF k # 0 /\ S[k].ws = "OPEN" THEN Bump(S, k, "stopSent") ELSE S

ClearIntervalOf(S, k) == Upd(S, k, "interval", "cleared")

\* workletNode.disconnect(); port.postMessage({command:"stop"})
WorkletStop(S, k) ==
  IF k = 0 THEN S
  ELSE [S EXCEPT ![k].worklet = "disconnected", ![k].wkDisconnects = @ + 1]

\* audioContext.close() when its state is not "closed"
ContextClose(S, k) ==
  IF k # 0 /\ S[k].ctx # "closed"
  THEN [S EXCEPT ![k].ctx = "closed", ![k].ctxCloses = @ + 1]
  ELSE S

\* stream.getTracks().forEach(track => track.stop())
TracksStop(S, k) ==
  IF k = 0 THEN S
  ELSE [S EXCEPT ![k].stream = "stopped", ![k].trackStops = @ + 1]

\* WebSocket.close(): CONNECTING and OPEN sockets start closing
SocketClose(S, k) ==
  IF k = 0 THEN S
  ELSE [S EXCEPT ![k].ws = IF @ \in {"CONNECTING", "OPEN"} THEN "CLOSING" ELSE @,
                 ![k].closeCalls = @ + 1]

\* ------------------------------------------------------- closeWebSocket
closeWebSocket ==
  /\ sessions' = SocketClose(sessions, wsRef)
  /\ wsRef' = 0

\* --------------------------------------------------------- stopListening
\* (wsRef.current as any).__fallbackTimeout = ... throws when the ref is null;
\* stopListening is async, so the rest of the body is skipped
StopThrows == wsRef = 0

\* the body suspends in `await audioContextRef.current.close()`
StopAwaits(S) ==
  ~StopThrows /\ audioContextRef # 0 /\ S[audioContextRef].ctx # "closed"

\* the objects after the synchronous part of stopListening
StopSessions(S) ==
  LET S1 == SendStop(RecorderStop(S, mediaRecorderRef), wsRef)
      S2 == Upd(S1, wsRef, "fallback", Len(fallbackTimers) + 1)
      S3 == WorkletStop(ClearIntervalOf(S2, durationIntervalRef), workletNodeRef)
  IN  IF StopThrows THEN S1
      ELSE IF StopAwaits(S) THEN ContextClose(S3, audioContextRef)
      ELSE TracksStop(S3, streamRef)

\* stopListening up to its first suspension, applied to the objects S
stopListening(S) ==
  /\ isListening' = FALSE
  /\ isProcessingLarge' = TRUE
  /\ fallbackTimers' = Append(fallbackTimers, "pending")
  /\ sessions' = StopSessions(S)
  /\ durationIntervalRef' = IF StopThrows THEN durationIntervalRef ELSE 0
  /\ workletNodeRef' = IF StopThrows THEN workletNodeRef ELSE 0
  /\ stopAwaiting' = IF StopAwaits(S) THEN stopAwaiting + 1 ELSE stopAwaiting
  /\ streamRef' = IF StopThrows \/ StopAwaits(S) THEN streamRef ELSE 0
  /\ UNCHANGED << audioContextRef, wsRef, mediaRecorderRef, closeTimers >>

\* the continuation after `await audioContextRef.current.close()`: the
\* context has closed and renders no more
StopListeningResume ==
  /\ mounted
  /\ stopAwaiting > 0
  /\ stopAwaiting' = stopAwaiting - 1
  /\ audioContextRef' = 0
  /\ sessions' = TracksStop(Upd(sessions, audioContextRef, "rendering", FALSE),
                          streamRef)
  /\ streamRef' = 0
  /\ UNCHANGED << reactVars, textVars, flagVars, wsRef, workletNodeRef,
                  durationIntervalRef, mediaRecorderRef,
                  recordedAudioChunksRef, fallbackTimers, closeTimers,
                  calls, mounted, isSpeaking, apiVars >>

\* the record button while isListening (onClick = stopListening)
ClickStop ==
  /\ mounted
  /\ currentView = "realtime"
  /\ isListening /\ ~isProcessingLarge
  /\ stopListening(sessions)
  /\ UNCHANGED << reactVars, textVars, recordedAudioChunksRef, calls,
                  mounted, isSpeaking, apiVars >>

handleBackFromRealtime ==
  /\ mounted
  /\ currentView = "realtime"
  /\ currentView' = "dashboard"
  /\ IF isListening
     THEN stopListening(sessions)
     ELSE UNCHANGED << flagVars, refVars, timerVars, sessions >>
  /\ UNCHANGED << meetingState, error, realtimeError, textVars,
                  recordedAudioChunksRef, calls, mounted, isSpeaking, apiVars >>

handleStartRealtimeMeeting ==
  /\ mounted
  /\ currentView = "dashboard"
  /\ meetingState = "IDLE"
  /\ currentView' = "realtime"
  /\ deepgramText' = <<>>
  /\ mediumTranscript' = <<>>
  /\ largeText' = <<>>
  /\ realtimeError' = ""
  /\ cumulativeMediumRef' = <<>>
  /\ stats' = [tiny |-> 0, medium |-> 0, large |-> 0]
  /\ recordedAudioChunksRef' = <<>>
  /\ UNCHANGED << meetingState, error, flagVars, refVars, timerVars, sessions,
                  calls, mounted, isSpeaking, apiVars >>

handleCloseAnalysis ==
  /\ mounted
  /\ currentView = "dashboard"
  /\ meetingState \in {"ANALYSIS_READY", "ERROR"}
  /\ meetingState' = "IDLE"
  /\ error' = FALSE
  /\ UNCHANGED << currentView, realtimeError, textVars, flagVars, refVars,
                  timerVars, sessions, recordedAudioChunksRef, calls,
                  mounted, isSpeaking, apiVars >>

clearTranscript ==
  /\ mounted
  /\ currentView = "realtime"
  /\ deepgramText # <<>> \/ mediumTranscript # <<>> \/ largeText # <<>>
  /\ deepgramText' = <<>>
  /\ mediumTranscript' = <<>>
  /\ largeText' = <<>>
  /\ cumulativeMediumRef' = <<>>
  /\ stats' = [tiny |-> 0, medium |-> 0, large |-> 0]
  /\ UNCHANGED << reactVars, flagVars, refVars, timerVars, sessions,
                  recordedAudioChunksRef, calls, mounted, isSpeaking, apiVars >>

\* ------------------------------------------------------- startListening
\* the record button while not listening (onClick = startListening):
\* the call runs up to `await getUserMedia`
ClickStart(maxS) ==
  /\ mounted
  /\ currentView = "realtime"
  /\ ~isListening /\ ~isProcessingLarge
  /\ Len(sessions) < maxS
  /\ realtimeError' = ""
  /\ sessions' = Append(sessions, NewSession(isListening, isProcessingLarge))
  /\ UNCHANGED << currentView, meetingState, error, textVars, flagVars,
                  refVars, timerVars, recordedAudioChunksRef, calls,
                  mounted, isSpeaking, apiVars >>

\* getUserMedia resolved: stream, MediaRecorder and WebSocket are created
GetUserMediaResolve(k) ==
  /\ mounted
  /\ sessions[k].pc = "getUserMedia"
  /\ streamRef' = k
  /\ recordedAudioChunksRef' = <<>>
  /\ mediaRecorderRef' = k
  /\ wsRef' = k
  /\ sessions' = [sessions EXCEPT ![k].pc = "started", ![k].stream = "live",
                                  ![k].rec = "recording",
                                  ![k].ws = "CONNECTING"]
  /\ UNCHANGED << reactVars, textVars, flagVars, audioContextRef,
                  workletNodeRef, durationIntervalRef, timerVars, calls,
                  mounted, isSpeaking, apiVars >>

\* GetUserMediaReject as it would be if the failure ended the session in ERROR
GetUserMediaReject_Error(k) ==
  /\ mounted
  /\ sessions[k].pc = "getUserMedia"
  /\ realtimeError' = "microphone"
  /\ meetingState' = "ERROR"
  /\ isListening' = FALSE
  /\ sessions' = [sessions EXCEPT ![k].pc = "failed"]
  /\ UNCHANGED << currentView, error, textVars, isProcessingLarge, refVars,
                  timerVars, recordedAudioChunksRef, calls, mounted,
                  isSpeaking, apiVars >>

\* getUserMedia rejected: the catch block of startListening
GetUserMediaReject(k) ==
  /\ mounted
  /\ sessions[k].pc = "getUserMedia"
  /\ realtimeError' = "microphone"
  /\ isListening' = FALSE
  /\ sessions' = [sessions EXCEPT ![k].pc = "failed"]
  /\ UNCHANGED << currentView, meetingState, error, textVars,
                  isProcessingLarge, refVars, timerVars,
                  recordedAudioChunksRef, calls, mounted, isSpeaking, apiVars >>

\* ws.onopen up to `await audioContext.audioWorklet.addModule`
WsOnOpen(k) ==
  /\ mounted
  /\ sessions[k].ws = "CONNECTING"
  /\ isListening' = TRUE
  /\ durationIntervalRef' = k
  /\ audioContextRef' = k
  /\ sessions' = [sessions EXCEPT ![k].ws = "OPEN", ![k].interval = "live",
                                  ![k].ctx = "running",
                                  ![k].rendering = TRUE,
                                  ![k].pcOpen = "addModule"]
  /\ UNCHANGED << reactVars, textVars, isProcessingLarge, wsRef,
                  workletNodeRef, streamRef, mediaRecorderRef, timerVars,
                  recordedAudioChunksRef, calls, mounted, isSpeaking, apiVars >>

\* ws.onopen after addModule resolved: the worklet node is created
AddModuleResolve(k) ==
  /\ mounted
  /\ sessions[k].pcOpen = "addModule"
  /\ workletNodeRef' = k
  /\ sessions' = [sessions EXCEPT ![k].pcOpen = "done",
                                  ![k].worklet = "connected"]
  /\ UNCHANGED << reactVars, textVars, flagVars, wsRef, audioContextRef,
                  streamRef, durationIntervalRef, mediaRecorderRef, timerVars,
                  recordedAudioChunksRef, calls, mounted, isSpeaking, apiVars >>

\* mediaRecorder.ondataavailable with a chunk of the given size
DataAvailable(k, size) ==
  /\ mounted
  /\ sessions[k].rec = "recording" \/ sessions[k].recFlush
  /\ size > 0 => Len(recordedAudioChunksRef) < MaxChunks
  /\ recordedAudioChunksRef' =
       IF size > 0 THEN Append(recordedAudioChunksRef, k)
       ELSE recordedAudioChunksRef
  /\ sessions' = [sessions EXCEPT ![k].recFlush = FALSE]
  /\ UNCHANGED << reactVars, textVars, flagVars, refVars, timerVars, calls,
                  mounted, isSpeaking, apiVars >>

\* ----------------------------------------------------------- audio worklet
\* this.silenceThreshold (0.01), in thousandths of full scale like the samples
silenceThreshold == 10

\* input sample values, in thousandths: at the threshold, just above it, and
\* a negative one beyond full scale
Samples == {10, 11, -1500}

\* the render quanta process() may be handed
Quanta == UNION { [1..n -> Samples] : n \in 1..MaxQuantum }

Abs(x) == IF x < 0 THEN -x ELSE x

Max(a, b) == IF a >= b THEN a ELSE b

Min(a, b) == IF a <= b THEN a ELSE b

\* s < 0 ? s * 0x8000 : s * 0x7fff after clamping to [-1, 1], stored in an
\* Int16Array (the fraction is dropped)
Pcm16(x) ==
  LET s == Max(-1000, Min(1000, x))
  IN  IF s < 0 THEN -((-s * 32768) \div 1000) ELSE (s * 32767) \div 1000

\* the processor's locals at the start of a process() call
ProcessEntry(buffer) == [buffer |-> buffer, maxAmplitude |-> 0, posted |-> <<>>]

\* ProcessSample as it would be if bufferIndex were not reset after a frame
ProcessSample_NoReset(p, x) ==
  LET buf == Append(p.buffer, x)
      amp == Max(p.maxAmplitude, Abs(x))
  IN  IF Len(buf) >= bufferSize
      THEN [buffer |-> buf, maxAmplitude |-> 0,
            posted |-> Append(p.posted,
                        [audioData |-> [j \in 1..Len(buf) |-> Pcm16(buf[j])],
                         isSpeaking |-> amp > silenceThreshold])]
      ELSE [buffer |-> buf, maxAmplitude |-> amp, posted |-> p.posted]

\* one iteration of the for loop of process(): store the sample, track the
\* amplitude, post a frame when the buffer is full
ProcessSample(p, x) ==
  LET buf == Append(p.buffer, x)
      amp == Max(p.maxAmplitude, Abs(x))
  IN  IF Len(buf) >= bufferSize
      THEN [buffer |-> <<>>, maxAmplitude |-> 0,
            posted |-> Append(p.posted,
                        [audioData |-> [j \in 1..bufferSize |-> Pcm16(buf[j])],
                         isSpeaking |-> amp > silenceThreshold])]
      ELSE [buffer |-> buf, maxAmplitude |-> amp, posted |-> p.posted]

\* the for loop of process() over inputData
RECURSIVE ProcessLoop(_, _)
ProcessLoop(p, inputData) ==
  IF inputData = <<>> THEN p
  ELSE ProcessLoop(ProcessSample(p, Head(inputData)), Tail(inputData))

\* the frames of posted, each with the socket's readyState at the time
Stamp(posted, open) ==
  [i \in 1..Len(posted) |->
     [audioData |-> posted[i].audioData, isSpeaking |-> posted[i].isSpeaking,
      open |-> open]]

\* Process as it would be if process() did not test this.isActive
Process_IgnoresStop(k, inputData) ==
  /\ mounted
  /\ sessions[k].worklet # "none" /\ sessions[k].rendering
  /\ sessions[k].alive
  /\ Len(sessions[k].fed) + Len(inputData) <= MaxSamples
  /\ LET p == ProcessLoop(ProcessEntry(sessions[k].buffer), inputData)
     IN  sessions' =
           [sessions EXCEPT
              ![k].buffer = p.buffer,
              ![k].port = @ \o p.posted,
              ![k].fed = @ \o inputData,
              ![k].emitted = @ \o Stamp(p.posted, sessions[k].ws = "OPEN")]
  /\ UNCHANGED << reactVars, textVars, flagVars, refVars, timerVars,
                  recordedAudioChunksRef, calls, mounted, isSpeaking, apiVars >>

\* AudioProcessor.process of the worklet node of session k for one render
\* quantum.  The render thread calls it, with the source's samples, until the
\* context has closed or a call has returned false, whether or not the main
\* thread has disconnected the node's output meanwhile.
Process(k, inputData) ==
  /\ mounted
  /\ sessions[k].worklet # "none" /\ sessions[k].rendering
  /\ sessions[k].alive
  /\ Len(sessions[k].fed) + Len(inputData) <= MaxSamples
  /\ LET p == ProcessLoop(ProcessEntry(sessions[k].buffer), inputData)
     IN  sessions' =
           IF sessions[k].isActive
           THEN [sessions EXCEPT
                   ![k].buffer = p.buffer,
                   ![k].port = @ \o p.posted,
                   ![k].fed = @ \o inputData,
                   ![k].emitted =
                     @ \o Stamp(p.posted, sessions[k].ws = "OPEN")]
           ELSE [sessions EXCEPT ![k].alive = FALSE]
  /\ UNCHANGED << reactVars, textVars, flagVars, refVars, timerVars,
                  recordedAudioChunksRef, calls, mounted, isSpeaking, apiVars >>

\* the processor's port.onmessage for {command: 'stop'}
ProcessorStop(k) ==
  /\ mounted
  /\ sessions[k].wkDisconnects > 0 /\ sessions[k].isActive
  /\ sessions' = [sessions EXCEPT ![k].isActive = FALSE]
  /\ UNCHANGED << reactVars, textVars, flagVars, refVars, timerVars,
                  recordedAudioChunksRef, calls, mounted, isSpeaking, apiVars >>

\* PortOnMessage as it would be if the frame were sent whatever readyState is
PortOnMessage_NoStateCheck(k) ==
  /\ mounted
  /\ sessions[k].port # <<>>
  /\ isSpeaking' = Head(sessions[k].port).isSpeaking
  /\ sessions' =
       [sessions EXCEPT ![k].port = Tail(@),
                        ![k].sent = Append(@, Head(sessions[k].port).audioData)]
  /\ UNCHANGED << reactVars, textVars, flagVars, refVars, timerVars,
                  recordedAudioChunksRef, calls, mounted, apiVars >>

\* workletNode.port.onmessage of session k for the oldest posted frame
PortOnMessage(k) ==
  /\ mounted
  /\ sessions[k].port # <<>>
  /\ isSpeaking' = Head(sessions[k].port).isSpeaking
  /\ sessions' =
       [sessions EXCEPT
          ![k].port = Tail(@),
          ![k].sent =
            IF sessions[k].ws = "OPEN"
               /\ Len(Head(sessions[k].port).audioData) > 0
            THEN Append(@, Head(sessions[k].port).audioData)
            ELSE @]
  /\ UNCHANGED << reactVars, textVars, flagVars, refVars, timerVars,
                  recordedAudioChunksRef, calls, mounted, apiVars >>

\* ----------------------------------------------------------- ws.onmessage
\* OnDeepgram as it would be if a refined transcript blocked the live text
OnDeepgram_BlockedByMedium(text) ==
  /\ deepgramText' = IF mediumTranscript = <<>> THEN text ELSE deepgramText
  /\ stats' = [stats EXCEPT !.tiny = @ + 1]
  /\ UNCHANGED << mediumTranscript, largeText, cumulativeMediumRef >>

\* the transcript after a deepgram_transcript message
OnDeepgram(text) ==
  /\ deepgramText' = text
  /\ stats' = [stats EXCEPT !.tiny = @ + 1]
  /\ UNCHANGED << mediumTranscript, largeText, cumulativeMediumRef >>

\* OnMediumDelta as it would be if the delta replaced the cumulative text
OnMediumDelta_Replace(text) ==
  /\ cumulativeMediumRef' = text
  /\ mediumTranscript' = text
  /\ stats' = [stats EXCEPT !.medium = @ + 1]
  /\ UNCHANGED << deepgramText, largeText >>

\* the transcript after a medium_delta message
OnMediumDelta(text) ==
  LET newDelta == Trim(text)
      newCumulative == JoinDelta(cumulativeMediumRef, newDelta)
  IN  IF newDelta # <<>>
      THEN /\ cumulativeMediumRef' = newCumulative
           /\ mediumTranscript' = newCumulative
           /\ stats' = [stats EXCEPT !.medium = @ + 1]
           /\ UNCHANGED << deepgramText, largeText >>
      ELSE UNCHANGED textVars

\* OnLargeText as it would be if the refined transcript were kept
OnLargeText_KeepsMedium(text) ==
  /\ largeText' = text
  /\ stats' = [stats EXCEPT !.large = @ + 1]
  /\ deepgramText' = <<>>
  /\ UNCHANGED << mediumTranscript, cumulativeMediumRef >>

\* the transcript after a large_result message
OnLargeText(text) ==
  /\ largeText' = text
  /\ stats' = [stats EXCEPT !.large = @ + 1]
  /\ mediumTranscript' = <<>>
  /\ deepgramText' = <<>>
  /\ cumulativeMediumRef' = <<>>

\* clearTimeout(wsRef.current.__fallbackTimeout) when both are set
ClearFallback(T) ==
  IF wsRef # 0 /\ sessions[wsRef].fallback # 0
     /\ T[sessions[wsRef].fallback] = "pending"
  THEN [T EXCEPT ![sessions[wsRef].fallback] = "cleared"]
  ELSE T

\* HandoffDue as it would be without the length check
HandoffDue_Always == TRUE

\* the handoff is made only when chunks were recorded
HandoffDue == Len(recordedAudioChunksRef) > 0

\* a processRealtimeComplete(audioBlob) call that has just been made
NewCall(k) == [st |-> "pending", k |-> k, blob |-> recordedAudioChunksRef]

\* the large_result branch after the transcript update
OnLargeResult(k) ==
  /\ isProcessingLarge' = FALSE
  /\ fallbackTimers' = ClearFallback(fallbackTimers)
  /\ closeTimers' = closeTimers + 1
  /\ meetingState' = IF HandoffDue THEN "PROCESSING" ELSE meetingState
  /\ calls' = IF HandoffDue THEN Append(calls, NewCall(k)) ELSE calls
  /\ sessions' = [sessions EXCEPT ![k].finals = @ + 1]
  /\ UNCHANGED << currentView, error, realtimeError, isListening, refVars,
                  stopAwaiting, recordedAudioChunksRef >>

MsgTypes == {"deepgram_transcript", "medium_delta", "large_result", "error",
             "pong"}

\* the messages {type, text, is_final} a backend may send
Messages(types, texts) ==
  [type : types, text : texts, is_final : BOOLEAN]

\* large_result messages delivered so far, over all sockets
Finals ==
  LET RECURSIVE Sum(_)
      Sum(n) == IF n = 0 THEN 0 ELSE sessions[n].finals + Sum(n - 1)
  IN  Sum(Len(sessions))

\* ws.onmessage of socket k for a parsed message
WsOnMessage(k, msg) ==
  /\ mounted
  /\ sessions[k].ws = "OPEN"
  /\ UNCHANGED << mounted, isSpeaking, apiVars >>
  /\ CASE msg.type = "deepgram_transcript" ->
            /\ stats.tiny < MaxStat
            /\ OnDeepgram(msg.text)
            /\ UNCHANGED << reactVars, flagVars, refVars, timerVars, sessions,
                            recordedAudioChunksRef, calls >>
       [] msg.type = "medium_delta" ->
            /\ stats.medium < MaxStat
            /\ Len(JoinDelta(cumulativeMediumRef, Trim(msg.text))) <= MaxTextLen
            /\ OnMediumDelta(msg.text)
            /\ UNCHANGED << reactVars, flagVars, refVars, timerVars, sessions,
                            recordedAudioChunksRef, calls >>
       [] msg.type = "large_result" ->
            /\ Finals < MaxFinals
            /\ OnLargeText(msg.text)
            /\ OnLargeResult(k)
       [] msg.type = "error" ->
            /\ realtimeError' = "transcription"
            /\ UNCHANGED << currentView, meetingState, error, textVars, stats,
                            flagVars, refVars, timerVars, sessions,
                            recordedAudioChunksRef, calls >>
       [] msg.type = "pong" ->
            UNCHANGED << reactVars, textVars, stats, flagVars, refVars,
                         timerVars, sessions, recordedAudioChunksRef, calls >>

\* WsOnMessageUnparsable as it would be if the parse error were shown to the
\* user
WsOnMessageUnparsable_Surfaced(k) ==
  /\ mounted
  /\ sessions[k].ws = "OPEN"
  /\ sessions[k].parseErrors < MaxParseErrors
  /\ sessions' = [sessions EXCEPT ![k].parseErrors = @ + 1]
  /\ realtimeError' = "transcription"
  /\ UNCHANGED << currentView, meetingState, error, textVars, flagVars,
                  refVars, timerVars, recordedAudioChunksRef, calls, mounted,
                  isSpeaking, apiVars >>

\* ws.onmessage of socket k for data JSON.parse rejects: the catch logs it
WsOnMessageUnparsable(k) ==
  /\ mounted
  /\ sessions[k].ws = "OPEN"
  /\ sessions[k].parseErrors < MaxParseErrors
  /\ sessions' = [sessions EXCEPT ![k].parseErrors = @ + 1]
  /\ UNCHANGED << reactVars, textVars, flagVars, refVars, timerVars,
                  recordedAudioChunksRef, calls, mounted, isSpeaking, apiVars >>

\* ------------------------------------------------------------------ timers
\* the 20 s timer armed by stopListening fires
FallbackFire(t) ==
  /\ mounted
  /\ t \in 1..Len(fallbackTimers)
  /\ fallbackTimers[t] = "pending"
  /\ \A u \in 1..(t - 1) : fallbackTimers[u] # "pending"
  /\ fallbackTimers' = [fallbackTimers EXCEPT ![t] = "fired"]
  /\ closeWebSocket
  /\ UNCHANGED << reactVars, textVars, flagVars, audioContextRef,
                  workletNodeRef, streamRef, durationIntervalRef,
                  mediaRecorderRef, closeTimers, stopAwaiting,
                  recordedAudioChunksRef, calls, mounted, isSpeaking, apiVars >>

\* the 500 ms timer armed by the large_result branch fires
CloseTimerFire ==
  /\ mounted
  /\ closeTimers > 0
  /\ closeTimers' = closeTimers - 1
  /\ closeWebSocket
  /\ UNCHANGED << reactVars, textVars, flagVars, audioContextRef,
                  workletNodeRef, streamRef, durationIntervalRef,
                  mediaRecorderRef, fallbackTimers, stopAwaiting,
                  recordedAudioChunksRef, calls, mounted, isSpeaking, apiVars >>

\* --------------------------------------------------- ws.onerror, ws.onclose
\* ws.onerror: the connection failed; isListening is the closure's value
WsOnError(k) ==
  /\ mounted
  /\ sessions[k].ws \in {"CONNECTING", "OPEN", "CLOSING"}
  /\ LET S == [sessions EXCEPT ![k].ws = "CLOSED"]
     IN  IF sessions[k].capListening
         THEN /\ realtimeError' = "connection"
              /\ stopListening(S)
         ELSE /\ sessions' = S
              /\ UNCHANGED << realtimeError, flagVars, refVars, timerVars >>
  /\ UNCHANGED << currentView, meetingState, error, textVars,
                  recordedAudioChunksRef, calls, mounted, isSpeaking, apiVars >>

\* ws.onclose: sent once per socket, after the server closed an OPEN socket,
\* after the closing handshake, or after an error
WsOnClose(k) ==
  /\ mounted
  /\ sessions[k].ws \in {"OPEN", "CLOSING", "CLOSED"}
  /\ ~sessions[k].closeFired
  /\ LET S == [sessions EXCEPT ![k].ws = "CLOSED", ![k].closeFired = TRUE]
     IN  IF sessions[k].capListening /\ ~sessions[k].capProcessing
         THEN /\ realtimeError' = "lost"
              /\ stopListening(S)
         ELSE /\ sessions' = S
              /\ UNCHANGED << realtimeError, flagVars, refVars, timerVars >>
  /\ UNCHANGED << currentView, meetingState, error, textVars,
                  recordedAudioChunksRef, calls, mounted, isSpeaking, apiVars >>

\* --------------------------------------------- processRealtimeComplete
\* the call resolved: .then runs up to `await refreshMeetingHistory()`
AnalysisResolve(c) ==
  /\ mounted
  /\ c \in 1..Len(calls)
  /\ calls[c].st = "pending"
  /\ calls' = [calls EXCEPT ![c].st = "refresh"]
  /\ UNCHANGED << reactVars, textVars, flagVars, refVars, timerVars, sessions,
                  recordedAudioChunksRef, mounted, isSpeaking, apiVars >>

\* .then after refreshMeetingHistory, which catches its own errors
AnalysisReady(c) ==
  /\ mounted
  /\ c \in 1..Len(calls)
  /\ calls[c].st = "refresh"
  /\ calls' = [calls EXCEPT ![c].st = "ok"]
  /\ currentView' = "dashboard"
  /\ meetingState' = "ANALYSIS_READY"
  /\ recordedAudioChunksRef' = <<>>
  /\ UNCHANGED << error, realtimeError, textVars, flagVars, refVars,
                  timerVars, sessions, mounted, isSpeaking, apiVars >>

\* the call rejected: .catch
AnalysisReject(c) ==
  /\ mounted
  /\ c \in 1..Len(calls)
  /\ calls[c].st = "pending"
  /\ calls' = [calls EXCEPT ![c].st = "failed"]
  /\ error' = TRUE
  /\ currentView' = "dashboard"
  /\ meetingState' = "ERROR"
  /\ UNCHANGED << realtimeError, textVars, flagVars, refVars, timerVars,
                  sessions, recordedAudioChunksRef, mounted, isSpeaking, apiVars >>

\* ------------------------------------------------------------------ cleanup
\* the objects after cleanup()
CleanupSessions(S) ==
  TracksStop(
    ContextClose(
      WorkletStop(ClearIntervalOf(RecorderStop(S, mediaRecorderRef),
                                  durationIntervalRef),
                  workletNodeRef),
      audioContextRef),
    streamRef)

\* the App component unmounts: the effect's destructor calls cleanup(); the
\* component's state and refs cease to exist, the objects remain
cleanup ==
  /\ mounted
  /\ mounted' = FALSE
  /\ isSpeaking' = FALSE
  /\ sessions' = CleanupSessions(sessions)
  /\ currentView' = "dashboard"
  /\ meetingState' = "IDLE"
  /\ error' = FALSE
  /\ realtimeError' = ""
  /\ deepgramText' = <<>>
  /\ mediumTranscript' = <<>>
  /\ largeText' = <<>>
  /\ cumulativeMediumRef' = <<>>
  /\ stats' = [tiny |-> 0, medium |-> 0, large |-> 0]
  /\ isListening' = FALSE
  /\ isProcessingLarge' = FALSE
  /\ wsRef' = 0
  /\ audioContextRef' = 0
  /\ workletNodeRef' = 0
  /\ streamRef' = 0
  /\ durationIntervalRef' = 0
  /\ mediaRecorderRef' = 0
  /\ recordedAudioChunksRef' = <<>>
  /\ UNCHANGED << timerVars, calls, apiVars >>

\* ------------------------------------------------------------ specification
\* the message types explored by the lifecycle specification
LifeTypes == {"large_result"}

\* the session lifecycle: every handler, one message text
Next ==
  \/ handleStartRealtimeMeeting
  \/ handleBackFromRealtime
  \/ handleCloseAnalysis
  \/ clearTranscript
  \/ ClickStart(MaxSessions)
  \/ ClickStop
  \/ StopListeningResume
  \/ CloseTimerFire
  \/ cleanup
  \/ \E t \in 1..Len(fallbackTimers) : FallbackFire(t)
  \/ \E c \in 1..Len(calls) : AnalysisResolve(c)
  \/ \E c \in 1..Len(calls) : AnalysisReady(c)
  \/ \E c \in 1..Len(calls) : AnalysisReject(c)
  \/ \E k \in Sess : GetUserMediaResolve(k)
  \/ \E k \in Sess : GetUserMediaReject(k)
  \/ \E k \in Sess : WsOnOpen(k)
  \/ \E k \in Sess : AddModuleResolve(k)
  \/ \E k \in Sess, size \in {0, 1} : DataAvailable(k, size)
  \/ \E k \in Sess, msg \in Messages(LifeTypes, LifeTexts) : WsOnMessage(k, msg)
  \/ \E k \in Sess : WsOnError(k)
  \/ \E k \in Sess : WsOnClose(k)

Spec == Init /\ [][Next]_vars

\* ---------------------------------------------- tier reconciliation only
\* a session that is recording: the state after handleStartRealtimeMeeting,
\* startListening, getUserMedia, ws.onopen and addModule
RecordingSession ==
  [ NewSession(FALSE, FALSE) EXCEPT
      !.pc = "started", !.stream = "live", !.rec = "recording",
      !.ws = "OPEN", !.pcOpen = "done", !.ctx = "running",
      !.worklet = "connected", !.interval = "live", !.rendering = TRUE ]

TierInit ==
  /\ currentView = "realtime"
  /\ meetingState = "IDLE"
  /\ error = FALSE
  /\ realtimeError = ""
  /\ deepgramText = <<>>
  /\ mediumTranscript = <<>>
  /\ largeText = <<>>
  /\ isListening = TRUE
  /\ isProcessingLarge = FALSE
  /\ wsRef = 1
  /\ audioContextRef = 1
  /\ workletNodeRef = 1
  /\ streamRef = 1
  /\ durationIntervalRef = 1
  /\ mediaRecorderRef = 1
  /\ cumulativeMediumRef = <<>>
  /\ recordedAudioChunksRef = <<>>
  /\ sessions = << RecordingSession >>
  /\ fallbackTimers = <<>>
  /\ closeTimers = 0
  /\ stopAwaiting = 0
  /\ calls = <<>>
  /\ stats = [tiny |-> 0, medium |-> 0, large |-> 0]
  /\ mounted = TRUE
  /\ isSpeaking = FALSE
  /\ replicas = NoReplicas
  /\ polling = NewPolling
  /\ streaming = [i \in 1..MaxStreams |-> NewStream]

\* the messages of a recording session, every type and text, with the stop
\* and the timers that end it
TierNext ==
  \/ clearTranscript
  \/ ClickStop
  \/ StopListeningResume
  \/ CloseTimerFire
  \/ \E t \in 1..Len(fallbackTimers) : FallbackFire(t)
  \/ \E k \in Sess, msg \in Messages(MsgTypes, TierTexts) : WsOnMessage(k, msg)
  \/ \E k \in Sess : WsOnMessageUnparsable(k)

TierSpec == TierInit /\ [][TierNext]_vars

\* ------------------------------------------------------ audio frames only
\* the worklet of a recording session, the frames it posts and sends, with
\* the stop and the socket closings that end the sending
FramerNext ==
  \/ ClickStop
  \/ StopListeningResume
  \/ \E t \in 1..Len(fallbackTimers) : FallbackFire(t)
  \/ \E k \in Sess, inputData \in Quanta : Process(k, inputData)
  \/ \E k \in Sess : ProcessorStop(k)
  \/ \E k \in Sess : PortOnMessage(k)
  \/ \E k \in Sess : WsOnClose(k)

FramerSpec == TierInit /\ [][FramerNext]_vars

\* ------------------------------------------------- reconciler replicas
TierTypes == {"deepgram_transcript", "medium_delta", "large_result"}

\* the host's handler applies a tier message to the transcript, and the
\* message is handed in the same order to the replicas that have joined
Publish(msg) ==
  /\ mounted
  /\ Len(replicas.log) < MaxLog
  /\ CASE msg.type = "deepgram_transcript" -> OnDeepgram(msg.text)
       [] msg.type = "medium_delta" -> OnMediumDelta(msg.text)
       [] msg.type = "large_result" -> OnLargeText(msg.text)
  /\ replicas' =
       [replicas EXCEPT
          !.log = Append(@, msg),
          !.peer = Reconcile(@, msg),
          !.late = IF replicas.joinedAt >= 0 THEN Reconcile(@, msg) ELSE @]
  /\ UNCHANGED << reactVars, flagVars, refVars, timerVars, sessions,
                  recordedAudioChunksRef, calls, mounted, isSpeaking,
                  polling, streaming >>

\* a replica joins: it is handed the messages published from now on
Join ==
  /\ mounted
  /\ replicas.joinedAt = -1
  /\ replicas' = [replicas EXCEPT !.joinedAt = Len(replicas.log)]
  /\ UNCHANGED << reactVars, textVars, flagVars, refVars, timerVars,
                  sessions, recordedAudioChunksRef, calls, mounted,
                  isSpeaking, polling, streaming >>

ConvergeNext ==
  \/ Join
  \/ \E msg \in Messages(TierTypes, TierTexts) : Publish(msg)

ConvergeSpec == Init /\ [][ConvergeNext]_vars

\* ---------------------------------------------------- pollRealtimeUpdates
\* the backend stores one more update
BackendAppend ==
  /\ polling.head < MaxSeq
  /\ polling' = [polling EXCEPT !.head = @ + 1]
  /\ UNCHANGED << appVars, replicas, streaming >>

\* Math.max(...updates.map(u => u.sequence_number))
MaxOf(updates) == CHOOSE u \in updates : \A v \in updates : v <= u

\* a setTimeout(poll, intervalMs) fires: poll() returns at once when polling
\* was stopped, else issues getRealtimeUpdates(meetingId, lastSequence)
PollTimer ==
  /\ polling.timers > 0
  /\ polling.isPolling => polling.requests < MaxPolls
  /\ polling' =
       IF polling.isPolling
       THEN [polling EXCEPT !.timers = @ - 1, !.inflight = @ + 1,
                            !.requests = @ + 1,
                            !.after = polling.lastSequence]
       ELSE [polling EXCEPT !.timers = @ - 1]
  /\ UNCHANGED << appVars, replicas, streaming >>

\* the updates handed to onUpdate are counted
Deliver(delivered, updates) ==
  [u \in 0..MaxSeq |-> IF u \in updates THEN delivered[u] + 1 ELSE delivered[u]]

\* PollResolve as it would be if the cursor were not advanced
PollResolve_KeepsCursor(updates) ==
  /\ polling.inflight > 0
  /\ updates \subseteq 0..polling.head
  /\ polling' =
       [polling EXCEPT
          !.inflight = @ - 1,
          !.delivered = Deliver(@, updates),
          !.honest = @ /\ \A u \in updates : u > polling.after,
          !.timers = IF polling.isPolling THEN @ + 1 ELSE @]
  /\ UNCHANGED << appVars, replicas, streaming >>

\* the request resolved with the updates (sequence numbers) of the response:
\* the rest of poll() after the await
PollResolve(updates) ==
  /\ polling.inflight > 0
  /\ updates \subseteq 0..polling.head
  /\ polling' =
       [polling EXCEPT
          !.inflight = @ - 1,
          !.delivered = Deliver(@, updates),
          !.lastSequence = IF updates # {} THEN MaxOf(updates) ELSE @,
          !.honest = @ /\ \A u \in updates : u > polling.after,
          !.timers = IF polling.isPolling THEN @ + 1 ELSE @]
  /\ UNCHANGED << appVars, replicas, streaming >>

\* the request failed: the catch logs, then the next poll is scheduled
PollReject ==
  /\ polling.inflight > 0
  /\ polling' =
       [polling EXCEPT
          !.inflight = @ - 1,
          !.timers = IF polling.isPolling THEN @ + 1 ELSE @]
  /\ UNCHANGED << appVars, replicas, streaming >>

\* the cleanup function pollRealtimeUpdates returned
StopPolling ==
  /\ polling.isPolling
  /\ polling' = [polling EXCEPT !.isPolling = FALSE]
  /\ UNCHANGED << appVars, replicas, streaming >>

PollNext ==
  \/ BackendAppend
  \/ PollTimer
  \/ PollReject
  \/ StopPolling
  \/ \E updates \in SUBSET (0..MaxSeq) : PollResolve(updates)

PollSpec == Init /\ [][PollNext]_vars

\* ---------------------------------------------------------- stopStreaming
\* the streaming socket's onopen: the connection is established
StreamOnOpen(i) ==
  /\ streaming[i].ws = "CONNECTING"
  /\ streaming' = [streaming EXCEPT ![i].ws = "OPEN"]
  /\ UNCHANGED << appVars, replicas, polling >>

\* the streaming socket's onclose: the connection failed, the peer closed
\* it, or the closing handshake the client started has finished
StreamOnClose(i) ==
  /\ streaming[i].ws # "CLOSED"
  /\ streaming' = [streaming EXCEPT ![i].ws = "CLOSED"]
  /\ UNCHANGED << appVars, replicas, polling >>

\* stopStreaming(ws): an open socket is sent the stop message and gets a
\* 500 ms timer, a socket in any other state is left alone
stopStreaming(i) ==
  /\ streaming[i].stopCalls < MaxStopCalls
  /\ streaming' =
       IF streaming[i].ws = "OPEN"
       THEN [streaming EXCEPT ![i].stopCalls = @ + 1,
                              ![i].stopSent = @ + 1,
                              ![i].timers = @ + 1]
       ELSE [streaming EXCEPT ![i].stopCalls = @ + 1]
  /\ UNCHANGED << appVars, replicas, polling >>

\* the 500 ms timer of stopStreaming fires: a socket still open is closed
StreamTimerFire(i) ==
  /\ streaming[i].timers > 0
  /\ streaming' =
       IF streaming[i].ws = "OPEN"
       THEN [streaming EXCEPT ![i].timers = @ - 1,
                              ![i].ws = "CLOSING",
                              ![i].closeCalls = @ + 1]
       ELSE [streaming EXCEPT ![i].timers = @ - 1]
  /\ UNCHANGED << appVars, replicas, polling >>

StreamNext ==
  \E i \in 1..MaxStreams :
    \/ StreamOnOpen(i)
    \/ StreamOnClose(i)
    \/ stopStreaming(i)
    \/ StreamTimerFire(i)

\* timers that were set fire; nothing obliges the peer to open or close
StreamSpec ==
  /\ Init
  /\ [][StreamNext]_vars
  /\ \A i \in 1..MaxStreams : WF_vars(StreamTimerFire(i))

\* ------------------------------------------------ start and stop races
\* record-button clicks, getUserMedia completion, the socket callbacks, the
\* final message and the close timers, over overlapping startListening calls
RaceNext ==
  \/ handleStartRealtimeMeeting
  \/ ClickStart(RaceSessions)
  \/ ClickStop
  \/ StopListeningResume
  \/ \E t \in 1..Len(fallbackTimers) : FallbackFire(t)
  \/ \E k \in Sess : GetUserMediaResolve(k)
  \/ \E k \in Sess : GetUserMediaReject(k)
  \/ \E k \in Sess : WsOnOpen(k)
  \/ \E k \in Sess : AddModuleResolve(k)
  \/ \E k \in Sess : WsOnError(k)
  \/ \E k \in Sess : WsOnClose(k)
  \/ CloseTimerFire
  \/ \E k \in Sess, msg \in Messages(LifeTypes, LifeTexts) : WsOnMessage(k, msg)

RaceSpec == Init /\ [][RaceNext]_vars

\* =================================================================== claims
AllTexts == LifeTexts \cup TierTexts

FinalMsgs == Messages({"large_result"}, AllTexts)
FastMsgs == Messages({"deepgram_transcript"}, AllTexts)
MidMsgs == Messages({"medium_delta"}, AllTexts)

\* C1: whatever fast, mid or earlier final events preceded it, after a
\* large_result message is processed the displayed transcript is exactly its
\* text and deepgramText, mediumTranscript and cumulativeMediumRef are empty.
C1_FinalReplaces ==
  [][\A k \in Sess, msg \in FinalMsgs :
       WsOnMessage(k, msg) =>
         /\ largeText' = msg.text
         /\ Displayed(largeText', mediumTranscript', deepgramText') = msg.text
         /\ deepgramText' = <<>>
         /\ mediumTranscript' = <<>>
         /\ cumulativeMediumRef' = <<>>]_vars

\* a second delivery of the final event, after fast and mid events
C1_Witness ==
  /\ stats.large = 2 /\ stats.tiny > 0 /\ stats.medium > 0
  /\ largeText = <<"a">>
  /\ deepgramText = <<>> /\ mediumTranscript = <<>>
  /\ cumulativeMediumRef = <<>>

\* C2: once a socket has processed a large_result message, no later
\* deepgram_transcript or medium_delta message on it changes largeText,
\* mediumTranscript, cumulativeMediumRef or deepgramText.
C2_NoMutationAfterFinal ==
  [][\A k \in Sess, msg \in FastMsgs \cup MidMsgs :
       (sessions[k].finals > 0 /\ WsOnMessage(k, msg)) =>
         UNCHANGED << largeText, mediumTranscript, cumulativeMediumRef,
                      deepgramText >>]_vars

\* C3: when the fallback timer of a stopped recording expires and no final
\* event has arrived, the session goes to PROCESSING and the transcription
\* socket is closed exactly once.
C3_FallbackStartsProcessing ==
  [][\A t \in 1..Len(fallbackTimers) :
       (FallbackFire(t) /\ Finals = 0 /\ wsRef # 0) =>
         /\ meetingState' = "PROCESSING"
         /\ sessions'[wsRef].closeCalls = 1]_vars

\* C4: when the transcription socket is closed by the other side while the
\* session is recording, the session goes to ERROR, recording stops and the
\* tracks, the audio context and the worklet node are each released once.
C4_UnexpectedCloseIsError ==
  [][\A k \in Sess :
       (WsOnClose(k) /\ sessions[k].ws = "OPEN" /\ isListening /\ wsRef = k) =>
         /\ meetingState' = "ERROR"
         /\ ~isListening'
         /\ sessions'[k].trackStops = 1
         /\ sessions'[k].ctxCloses = 1
         /\ sessions'[k].worklet = "connected" =>
              sessions'[k].wkDisconnects = 1]_vars

\* C5 as claimed: every large_result message received after the recording
\* was stopped sets PROCESSING and starts processRealtimeComplete, whatever
\* recordedAudioChunksRef holds.
C5_FinalAlwaysHandsOff ==
  [][\A k \in Sess, msg \in FinalMsgs :
       (WsOnMessage(k, msg) /\ sessions[k].rec = "inactive") =>
         /\ meetingState' = "PROCESSING"
         /\ Len(calls') = Len(calls) + 1]_vars

\* C5 amended: a large_result message sets PROCESSING and starts
\* processRealtimeComplete with the buffered chunks exactly when
\* recordedAudioChunksRef is not empty; when it is empty no call is made and
\* meetingState is left as it was.
C5_HandoffIffChunks ==
  [][\A k \in Sess, msg \in FinalMsgs :
       WsOnMessage(k, msg) =>
         IF Len(recordedAudioChunksRef) > 0
         THEN /\ meetingState' = "PROCESSING"
              /\ calls' = Append(calls, [st |-> "pending", k |-> k,
                                         blob |-> recordedAudioChunksRef])
         ELSE /\ meetingState' = meetingState
              /\ calls' = calls]_vars

\* the handoff has been made for a stopped recording
C5_Witness ==
  /\ Len(calls) = 1 /\ calls[1].st = "pending"
  /\ calls[1].blob = recordedAudioChunksRef
  /\ Len(recordedAudioChunksRef) > 0
  /\ meetingState = "PROCESSING"
  /\ sessions[1].rec = "inactive" /\ ~isListening /\ ~isProcessingLarge

\* every processRealtimeComplete call of the session has settled and its
\* handler has run
AllSettled == \A c \in 1..Len(calls) : calls[c].st \in {"ok", "failed"}

\* C6: once the analysis calls of a session have settled, meetingState is not
\* PROCESSING, and a session with a failed analysis call is not in
\* ANALYSIS_READY.
C6_OutcomeFollowsCall ==
  (calls # <<>> /\ AllSettled) =>
    /\ meetingState # "PROCESSING"
    /\ (\E c \in 1..Len(calls) : calls[c].st = "failed") =>
         meetingState # "ANALYSIS_READY"

\* C7 as claimed: tracks are never stopped and the audio context is never
\* closed while the session's transcription socket is connecting or open.
C7_SocketClosedFirst ==
  \A k \in Sess :
    (sessions[k].trackStops > 0 \/ sessions[k].ctxCloses > 0) =>
      sessions[k].ws \notin {"CONNECTING", "OPEN"}

\* a step that disconnects a worklet node, closes an audio context or stops
\* the tracks of a stream
ReleaseStep ==
  \E k \in Sess :
    \/ sessions'[k].trackStops > sessions[k].trackStops
    \/ sessions'[k].ctxCloses > sessions[k].ctxCloses
    \/ sessions'[k].wkDisconnects > sessions[k].wkDisconnects

\* C7 amended: while the component is mounted, the worklet, the audio
\* context and the tracks are released only by a stopListening call, in the
\* run that has sent the stop message on the socket if it is open, has armed
\* the fallback close timer and stored it on the socket, or in that call's
\* continuation; the call does not close the socket, which may still be open.
C7_TeardownInitiatedFirst ==
  [][(ReleaseStep /\ mounted') =>
       \/ stopAwaiting' = stopAwaiting - 1
       \/ /\ wsRef # 0
          /\ Len(fallbackTimers') = Len(fallbackTimers) + 1
          /\ sessions'[wsRef].fallback = Len(fallbackTimers')
          /\ fallbackTimers'[Len(fallbackTimers')] = "pending"
          /\ sessions'[wsRef].closeCalls = sessions[wsRef].closeCalls
          /\ sessions[wsRef].ws = "OPEN" =>
               /\ sessions'[wsRef].stopSent = sessions[wsRef].stopSent + 1
               /\ sessions'[wsRef].ws = "OPEN"]_vars

\* tracks stopped after the stop message, with the socket still open
C7_Witness ==
  \E k \in Sess :
    /\ sessions[k].trackStops = 1 /\ sessions[k].ctxCloses = 1
    /\ sessions[k].ws = "OPEN" /\ sessions[k].stopSent = 1
    /\ sessions[k].fallback # 0
    /\ fallbackTimers[sessions[k].fallback] = "pending"

\* C8: at most one live stream, one recording MediaRecorder, one running
\* audio context and one connecting or open socket at any time.
AtMostOne(P(_)) == Cardinality({k \in Sess : P(k)}) <= 1

StreamLive(k) == sessions[k].stream = "live"
RecorderOn(k) == sessions[k].rec = "recording"
ContextOn(k) == sessions[k].ctx = "running"
SocketOn(k) == sessions[k].ws \in {"CONNECTING", "OPEN"}

C8_SingleResources ==
  /\ AtMostOne(StreamLive)
  /\ AtMostOne(RecorderOn)
  /\ AtMostOne(ContextOn)
  /\ AtMostOne(SocketOn)

\* C9: a deepgram_transcript message makes deepgramText its text and leaves
\* mediumTranscript, cumulativeMediumRef and largeText as they were.
C9_FastReplacesInterim ==
  [][\A k \in Sess, msg \in FastMsgs :
       WsOnMessage(k, msg) =>
         /\ deepgramText' = msg.text
         /\ UNCHANGED << mediumTranscript, cumulativeMediumRef,
                         largeText >>]_vars

\* two fast events processed while a refined transcript is shown
C9_Witness ==
  /\ stats.tiny = 2
  /\ deepgramText = <<SP, "b">>
  /\ mediumTranscript = <<"a">> /\ cumulativeMediumRef = <<"a">>

\* C10 as claimed: every medium_delta message appends its text to the
\* committed text, space-joined when that is not empty, and clears
\* deepgramText.
C10_MidAppendsAndClears ==
  [][\A k \in Sess, msg \in MidMsgs :
       WsOnMessage(k, msg) =>
         /\ cumulativeMediumRef' = JoinDelta(cumulativeMediumRef, msg.text)
         /\ mediumTranscript' = cumulativeMediumRef'
         /\ deepgramText' = <<>>]_vars

\* C10 amended: a medium_delta message whose text is not blank appends the
\* trimmed text to cumulativeMediumRef and mediumTranscript, space-joined
\* when they are not empty, and leaves deepgramText and largeText as they
\* were; a blank one changes nothing.
C10_MidAppendsTrimmed ==
  [][\A k \in Sess, msg \in MidMsgs :
       WsOnMessage(k, msg) =>
         IF Trim(msg.text) # <<>>
         THEN /\ cumulativeMediumRef' =
                   IF cumulativeMediumRef = <<>> THEN Trim(msg.text)
                   ELSE cumulativeMediumRef \o <<SP>> \o Trim(msg.text)
              /\ mediumTranscript' = cumulativeMediumRef'
              /\ UNCHANGED << deepgramText, largeText >>
         ELSE UNCHANGED << cumulativeMediumRef, mediumTranscript,
                           deepgramText, largeText, stats >>]_vars

\* two deltas joined by one space, the second trimmed, the live text kept
C10_Witness ==
  /\ stats.medium = 2
  /\ cumulativeMediumRef = <<"a", SP, "b">>
  /\ mediumTranscript = <<"a", SP, "b">>
  /\ deepgramText = <<"a">>

\* C11: a deepgram_transcript message with is_final true appends its text to
\* the committed text (cumulativeMediumRef and mediumTranscript), joined by a
\* space when that is not empty, and clears deepgramText; one with is_final
\* false only replaces deepgramText.
C11_FastFinalCommits ==
  [][\A k \in Sess, msg \in FastMsgs :
       WsOnMessage(k, msg) =>
         IF msg.is_final
         THEN /\ cumulativeMediumRef' = JoinDelta(cumulativeMediumRef, msg.text)
              /\ mediumTranscript' = cumulativeMediumRef'
              /\ deepgramText' = <<>>
         ELSE /\ deepgramText' = msg.text
              /\ UNCHANGED << mediumTranscript, cumulativeMediumRef,
                              largeText >>]_vars

\* Reconcile is what the handler does to the transcript
ReconcileIsOnMessage ==
  [][\A k \in Sess, msg \in Messages(MsgTypes, AllTexts) :
       WsOnMessage(k, msg) => Transcript' = Reconcile(Transcript, msg)]_vars

\* C12: for every tier message and every transcript state, applying the
\* message a second time leaves the transcript as the first application made
\* it.
C12_RedeliveryIdempotent ==
  [][\A k \in Sess, msg \in FastMsgs \cup MidMsgs \cup FinalMsgs :
       WsOnMessage(k, msg) =>
         Reconcile(Reconcile(Transcript, msg), msg) = Transcript']_vars

\* a step in which stopListening runs: by the record button, or by the back
\* button while listening
StopStep ==
  \/ ClickStop
  \/ handleBackFromRealtime /\ isListening

\* C13: stopping arms a fallback timer every time and leaves the socket as
\* it is; the client calls close() on a socket only after that socket has
\* delivered a large_result message or in the step in which a fallback timer
\* fires; a large_result message arriving on a socket cancels the fallback
\* timer stored on it; no socket has close() called on it twice.
C13_ClosedAfterFinalOrFallback ==
  /\ [][StopStep =>
          /\ Len(fallbackTimers') = Len(fallbackTimers) + 1
          /\ fallbackTimers'[Len(fallbackTimers')] = "pending"
          /\ \A k \in Sess :
               /\ sessions'[k].ws = sessions[k].ws
               /\ sessions'[k].closeCalls = sessions[k].closeCalls]_vars
  /\ [][\A k \in Sess :
          sessions'[k].closeCalls > sessions[k].closeCalls =>
            \/ sessions[k].finals > 0
            \/ \E t \in 1..Len(fallbackTimers) : FallbackFire(t)]_vars
  /\ [][\A k \in Sess, msg \in FinalMsgs :
          (WsOnMessage(k, msg) /\ sessions[k].fallback # 0) =>
            fallbackTimers'[sessions[k].fallback] # "pending"]_vars
  /\ [](\A k \in Sess : sessions[k].closeCalls <= 1)

IsPrefix(a, b) == Len(a) <= Len(b) /\ SubSeq(b, 1, Len(a)) = a

\* a step that opens the realtime page, starts a recording or unmounts
FreshStep ==
  \/ handleStartRealtimeMeeting
  \/ \E k \in Sess : GetUserMediaResolve(k)
  \/ cleanup

\* C14: between the start of a recording and the handoff
\* recordedAudioChunksRef only grows at its end, and the step that calls
\* processRealtimeComplete with the blob leaves the buffer empty, whatever
\* the call's outcome is later.
C14_BufferClearedAtHandoff ==
  [][/\ (calls = <<>> /\ ~FreshStep) =>
          IsPrefix(recordedAudioChunksRef, recordedAudioChunksRef')
     /\ Len(calls') > Len(calls) => recordedAudioChunksRef' = <<>>]_vars

\* nothing of an earlier recording is live: no connecting or open socket, no
\* recording MediaRecorder, no pending close or fallback timer
NothingLive ==
  /\ closeTimers = 0
  /\ \A t \in 1..Len(fallbackTimers) : fallbackTimers[t] # "pending"
  /\ \A k \in Sess : ~SocketOn(k) /\ ~RecorderOn(k)

\* C15: in ERROR and in ANALYSIS_READY handleCloseAnalysis can be taken, and
\* after it meetingState is IDLE, the record button is enabled
\* (isListening and isProcessingLarge are false) and no socket, timer or
\* recorder of the earlier recording is live.
C15_DismissGivesFreshSession ==
  /\ [](meetingState \in {"ERROR", "ANALYSIS_READY"} /\ mounted =>
          ENABLED handleCloseAnalysis)
  /\ [][handleCloseAnalysis =>
          /\ meetingState' = "IDLE"
          /\ ~isListening' /\ ~isProcessingLarge'
          /\ NothingLive']_vars

\* C16: when getUserMedia rejects, realtimeError is set, meetingState is
\* left as it is (IDLE), isListening is false, and the call has created no
\* stream, MediaRecorder, socket, audio context, worklet node or timer: its
\* objects do not exist and the refs and the timers are as before.
C16_MicFailureLeavesIdle ==
  [][\A k \in Sess :
       GetUserMediaReject(k) =>
         /\ realtimeError' # ""
         /\ meetingState' = meetingState
         /\ ~isListening'
         /\ sessions'[k].stream = "none" /\ sessions'[k].rec = "none"
         /\ sessions'[k].ws = "none" /\ sessions'[k].ctx = "none"
         /\ sessions'[k].worklet = "none" /\ sessions'[k].interval = "none"
         /\ UNCHANGED << refVars, timerVars, recordedAudioChunksRef >>]_vars

\* the only startListening call failed at getUserMedia
C16_Witness ==
  /\ Len(sessions) = 1 /\ sessions[1].pc = "failed"
  /\ realtimeError = "microphone"
  /\ meetingState = "IDLE" /\ ~isListening
  /\ wsRef = 0 /\ mediaRecorderRef = 0 /\ streamRef = 0
  /\ fallbackTimers = <<>> /\ closeTimers = 0

\* C17: a message JSON.parse rejects changes nothing but the error log: the
\* transcript, the stats, meetingState, the error shown, the flags, the refs,
\* the timers, the calls and the socket are as before; and a well-formed
\* message that arrives on a socket after such a drop is applied as on any
\* other socket.
C17_UnparsableDropped ==
  /\ [][\A k \in Sess :
          WsOnMessageUnparsable(k) =>
            /\ UNCHANGED << reactVars, textVars, flagVars, refVars, timerVars,
                            recordedAudioChunksRef, calls >>
            /\ sessions' =
                 [sessions EXCEPT
                    ![k].parseErrors = sessions[k].parseErrors + 1]]_vars
  /\ [][\A k \in Sess, msg \in Messages(MsgTypes, AllTexts) :
          (sessions[k].parseErrors > 0 /\ WsOnMessage(k, msg)) =>
            /\ Transcript' = Reconcile(Transcript, msg)
            /\ sessions'[k].ws = "OPEN"]_vars

\* a message was dropped on an open socket and tier messages were applied
C17_Witness ==
  \E k \in Sess :
    /\ sessions[k].parseErrors = 1 /\ sessions[k].ws = "OPEN"
    /\ stats.tiny = 1 /\ stats.medium = 1 /\ stats.large = 1
    /\ realtimeError = ""

\* the k-th frame a framer fed with the samples fed would emit, as PCM16
FrameOf(fed, i) ==
  [j \in 1..bufferSize |-> Pcm16(fed[(i - 1) * bufferSize + j])]

\* C18: whatever the sizes of the render quanta, every frame posted has
\* exactly bufferSize samples, the number of frames posted for N input
\* samples is floor(N / bufferSize), and the i-th frame holds, converted to
\* PCM16 and in order, the input samples (i-1)*bufferSize+1 .. i*bufferSize;
\* the samples not yet posted wait in the buffer.
C18_FramesAreWholeWindows ==
  \A k \in Sess :
    LET fed == sessions[k].fed
        emitted == sessions[k].emitted
    IN  /\ Len(emitted) = Len(fed) \div bufferSize
        /\ \A i \in 1..Len(emitted) :
             /\ Len(emitted[i].audioData) = bufferSize
             /\ emitted[i].audioData = FrameOf(fed, i)
        /\ sessions[k].buffer =
             SubSeq(fed, Len(emitted) * bufferSize + 1, Len(fed))

\* two different frames posted for at least two windows of input
C18_Witness ==
  \E k \in Sess :
    /\ Len(sessions[k].fed) >= 2 * bufferSize
    /\ Len(sessions[k].emitted) = 2
    /\ sessions[k].emitted[1].audioData # sessions[k].emitted[2].audioData

\* the largest absolute value of the input samples of the i-th frame
RECURSIVE MaxAbs(_)
MaxAbs(samples) ==
  IF samples = <<>> THEN 0
  ELSE Max(Abs(Head(samples)), MaxAbs(Tail(samples)))

\* C19: the isSpeaking flag of every posted frame is true exactly when the
\* largest absolute sample value over all the samples of that frame exceeds
\* silenceThreshold.
C19_SpeakingOverWholeFrame ==
  \A k \in Sess :
    \A i \in 1..Len(sessions[k].emitted) :
      sessions[k].emitted[i].isSpeaking <=>
        MaxAbs(SubSeq(sessions[k].fed, (i - 1) * bufferSize + 1,
                      i * bufferSize)) > silenceThreshold

\* the binary payloads of a sequence of frames
Audio(frames) == [i \in 1..Len(frames) |-> frames[i].audioData]

FrameOpen(f) == f.open

\* C20 as claimed: once every posted frame has been handled, the messages
\* sent on the socket are exactly the frames that were posted while the
\* socket was open, once each and in the order posted.
C20_EveryOpenFrameSent ==
  \A k \in Sess :
    sessions[k].port = <<>> =>
      sessions[k].sent = Audio(SelectSeq(sessions[k].emitted, FrameOpen))

\* C20 amended: a posted frame is sent, as one binary message, exactly when
\* the socket is open at the time port.onmessage handles it, and is dropped
\* otherwise; frames are handled in the order posted, so the messages sent
\* are a prefix of the frames posted, and while the socket is open every
\* posted frame has been sent once or is still waiting to be handled.
C20_HandledWhileOpenSent ==
  /\ [][\A k \in Sess :
          PortOnMessage(k) =>
            /\ sessions'[k].port = Tail(sessions[k].port)
            /\ sessions'[k].sent =
                 IF sessions[k].ws = "OPEN"
                 THEN Append(sessions[k].sent,
                             Head(sessions[k].port).audioData)
                 ELSE sessions[k].sent]_vars
  /\ [](\A k \in Sess :
          /\ IsPrefix(sessions[k].sent, Audio(sessions[k].emitted))
          /\ sessions[k].ws = "OPEN" =>
               Audio(sessions[k].emitted) =
                 sessions[k].sent \o Audio(sessions[k].port))

\* one frame sent, a second one posted while the socket was open and
\* dropped because the socket had closed when it was handled
C20_Witness ==
  \E k \in Sess :
    /\ Len(sessions[k].emitted) = 2 /\ sessions[k].emitted[2].open
    /\ sessions[k].port = <<>>
    /\ sessions[k].sent = << sessions[k].emitted[1].audioData >>
    /\ sessions[k].ws # "OPEN"

\* C21: once the processor has handled the stop command (isActive is false)
\* no step posts another frame or touches the buffer, so the partly filled
\* buffer is never flushed; every frame ever posted is a whole one; a
\* process() call is one step, so the stop command is handled between calls,
\* never inside a flush, and the first call after it returns false.
C21_StopIsCooperative ==
  /\ [][\A k \in Sess :
          ~sessions[k].isActive =>
            /\ sessions'[k].emitted = sessions[k].emitted
            /\ sessions'[k].buffer = sessions[k].buffer
            /\ sessions'[k].fed = sessions[k].fed
            /\ \/ sessions'[k].port = sessions[k].port
               \/ /\ sessions[k].port # <<>>
                  /\ sessions'[k].port = Tail(sessions[k].port)]_vars
  /\ [][\A k \in Sess, inputData \in Quanta :
          (Process(k, inputData) /\ ~sessions[k].isActive) =>
            ~sessions'[k].alive]_vars
  /\ [](\A k \in Sess :
          \A i \in 1..Len(sessions[k].emitted) :
            Len(sessions[k].emitted[i].audioData) = bufferSize)

\* process() was called after the stop command, with a sample waiting in
\* the buffer, while the context was still rendering: it returned false and
\* the sample was not posted
C21_Witness ==
  \E k \in Sess :
    /\ ~sessions[k].isActive /\ ~sessions[k].alive
    /\ sessions[k].buffer # <<>>
    /\ Len(sessions[k].emitted) = Len(sessions[k].fed) \div bufferSize
    /\ Len(sessions[k].emitted) > 0

\* the transcript state after the messages msgs have been applied in order
RECURSIVE FoldReconcile(_, _)
FoldReconcile(t, msgs) ==
  IF msgs = <<>> THEN t
  ELSE FoldReconcile(Reconcile(t, Head(msgs)), Tail(msgs))

C23_NothingAfterStopPolling ==
  [][~polling.isPolling =>
       /\ polling'.delivered = polling.delivered
       /\ polling'.requests = polling.requests]_vars

\* the parts of C30 that do not depend on the backend: at most one request
\* is outstanding and no poll is scheduled meanwhile, the first request asks
\* for the updates after -1, and a failed poll leaves the cursor as it is
\* and schedules the next poll unless polling was stopped
PollingIsSequential ==
  /\ [](/\ polling.inflight + polling.timers <= 1
        /\ polling.requests = 1 => polling.after = -1
        /\ polling.lastSequence >= -1)
  /\ [][PollReject =>
          /\ polling'.lastSequence = polling.lastSequence
          /\ polling.isPolling => polling'.timers = polling.timers + 1]_vars

C24_StoppedStreamCloses ==
  /\ \A i \in 1..MaxStreams :
       (streaming[i].stopCalls > 0) ~> (streaming[i].ws \in {"CLOSING", "CLOSED"})
  /\ [][\A i \in 1..MaxStreams :
          (stopStreaming(i) /\ streaming[i].ws = "OPEN") =>
            streaming'[i].stopSent = streaming[i].stopSent + 1]_vars
  /\ [](\A i \in 1..MaxStreams : streaming[i].closeCalls <= 1)

\* the processRealtimeComplete calls made from the socket of session k
CallsOf(k) == {c \in 1..Len(calls) : calls[c].k = k}

\* C25: processRealtimeComplete is called at most once in each recording
\* session, however many large_result messages its socket delivers.
C25_OneHandoffPerSession ==
  \A k \in Sess : Cardinality(CallsOf(k)) <= 1

\* C26: while isListening is true and the MediaRecorder is recording, no
\* step calls processRealtimeComplete and no step moves meetingState to
\* PROCESSING.
C26_HandoffAfterStop ==
  [][(/\ isListening
      /\ mediaRecorderRef # 0
      /\ sessions[mediaRecorderRef].rec = "recording") =>
        /\ calls' = calls
        /\ meetingState' = "PROCESSING" => meetingState = "PROCESSING"]_vars

\* C27: every stopListening releases what the refs hold at the call: the
\* duration interval is cleared, the worklet node is disconnected and told
\* to stop, the audio context is closed, and the microphone tracks are
\* stopped at once or by the continuation the call leaves pending.
C27_StopReleasesEverything ==
  [][StopStep =>
       /\ durationIntervalRef # 0 =>
            sessions'[durationIntervalRef].interval = "cleared"
       /\ workletNodeRef # 0 =>
            sessions'[workletNodeRef].wkDisconnects
              = sessions[workletNodeRef].wkDisconnects + 1
       /\ audioContextRef # 0 =>
            sessions'[audioContextRef].ctx = "closed"
       /\ streamRef # 0 =>
            \/ sessions'[streamRef].stream = "stopped"
            \/ stopAwaiting' = stopAwaiting + 1]_vars

\* C28: once the stop message of a session has been sent, no frame is sent
\* on its socket.
C28_NoFrameAfterStop ==
  [][\A k \in Sess :
       sessions[k].stopSent > 0 =>
         sessions'[k].sent = sessions[k].sent]_vars

\* C29: no socket is sent the stop message twice; the stop message is sent
\* only on an open socket; and a stopListening that stops a recording whose
\* socket is open sends that socket its one stop message.
C29_StopSentOnce ==
  /\ [](\A k \in Sess : sessions[k].stopSent <= 1)
  /\ [][\A k \in Sess :
          sessions'[k].stopSent > sessions[k].stopSent =>
            sessions[k].ws = "OPEN"]_vars
  /\ [][(/\ StopStep
         /\ mediaRecorderRef # 0
         /\ sessions[mediaRecorderRef].rec = "recording"
         /\ sessions[mediaRecorderRef].ws = "OPEN") =>
           /\ sessions[mediaRecorderRef].stopSent = 0
           /\ sessions'[mediaRecorderRef].stopSent = 1]_vars

====
